---- MODULE Spec2Model ----
(***************************************************************************)
(* Query-iteration core of flecs_ecs: the consumption patterns of the      *)
(* IterAPI trait (src/flecs_ecs/src/core/utility/traits/iter.rs) run       *)
(* against a cursor that yields a finite sequence of matches.  One         *)
(* behaviour is one call of one pattern, taken one source statement at a   *)
(* time, so that the states "inside the callback", "between lock and       *)
(* unlock" and "after return" are all visible.                             *)
(***************************************************************************)
EXTENDS Integers, Sequences, FiniteSets, TLC

\* Bounds of the model.
MaxMatches == 2
MaxCount == 2
NumTables == 2
NumFields == 1
MaxTerms == 2
MaxVars == 2

Tables == 1..NumTables

\* The fields of the query's component tuple T, by declared position.
Fields == 1..NumFields

\* The methods that consume a cursor.
ConsumptionPatterns ==
    {"each", "each_entity", "each_iter", "find", "find_entity", "find_iter",
     "iter", "iter_only", "first_entity", "is_true", "count"}

\* The methods that read the prepared query.
IntrospectionOps ==
    {"each_term", "term", "field_count", "term_count", "to_string",
     "find_var", "plan"}

Patterns == ConsumptionPatterns \cup IntrospectionOps

\* Option<EntityView>
None == << >>
Some(e) == << e >>

\* The identifier stored in entity slot `row` of the m-th match.  Identifiers
\* are distinct across matches and rows; 0 is no entity's identifier.
EntityId(m, row) == (m - 1) * (MaxCount + 1) + row + 1

\* Every value a read of an entity slot can produce.
EntityDomain == 0..(MaxMatches * (MaxCount + 1))

VARIABLES
    pattern,     \* the IterAPI method being called
    matches,     \* the matches the cursor will yield: [table, count] each
    pc,          \* position in the method's body
    cur,         \* cursor state: None, Fresh, Matching, Exhausted, Finalized
    pos,         \* number of matches the cursor has yielded (index of the current one)
    i,           \* row index of the inner for loop
    iter_count,  \* the local iter_count of the current match
    table_lock,  \* per table: lock depth held in the engine
    locks,       \* per match: ecs_table_lock calls made for it
    unlocks,     \* per match: ecs_table_unlock calls made for it
    calls,       \* callback invocations: [m, row, ret]
    entity,      \* the Option<EntityView> the method returns
    result,      \* count's i32 accumulator, is_true's bool
    reads,       \* entity slots read: <<m, row>>
    cur_log,     \* cursor primitives called, in order
    shared,      \* per field: the current match marks the field shared
    tuple,       \* per field: the element the last tuple built addresses
    query_null,  \* self.query_ptr() is null
    nterms,      \* the prepared query's term_count
    var_index,   \* what ecs_query_find_var returns for the name looked up
    os_free,     \* sys::ecs_os_api.free_ is Some
    buf_alloc,   \* string buffers the engine has handed out
    buf_frees,   \* calls of the deallocation hook
    null_deref   \* a null query pointer was dereferenced or given to the engine

fieldVars == <<shared, tuple>>

introVars ==
    <<query_null, nterms, var_index, os_free, buf_alloc, buf_frees, null_deref>>

vars ==
    <<pattern, matches, pc, cur, pos, i, iter_count, table_lock, locks,
      unlocks, calls, entity, result, reads, cur_log, shared, tuple,
      query_null, nterms, var_index, os_free, buf_alloc, buf_frees,
      null_deref>>

----------------------------------------------------------------------------
\* Initial states: a method is about to be called.  A consumption pattern
\* is called on a query whose cursor will yield some sequence of at most
\* MaxMatches matches; an introspection method on a query handle that may be
\* null where the method reads through it.  An input a method does not read
\* is held at one value.

MatchDesc == [table : Tables, count : 0..MaxCount]

\* Table handles are opaque: a sequence of matches is taken up to renaming of
\* the tables, the first match on table 1, a new table taking the next number.
CanonicalTables(ms) ==
    \A m \in 1..Len(ms) :
        \/ ms[m].table = 1
        \/ \E k \in 1..(m - 1) : ms[m].table <= ms[k].table + 1

MatchSeqs ==
    UNION { { ms \in [1..n -> MatchDesc] : CanonicalTables(ms) } : n \in 0..MaxMatches }

Init ==
    /\ pattern \in Patterns
    /\ matches \in IF pattern \in ConsumptionPatterns THEN MatchSeqs ELSE {<< >>}
    /\ pc = "entry"
    /\ cur = "None"
    /\ pos = 0
    /\ i = 0
    /\ iter_count = 0
    /\ table_lock = [t \in Tables |-> 0]
    /\ locks = [m \in 1..Len(matches) |-> 0]
    /\ unlocks = [m \in 1..Len(matches) |-> 0]
    /\ calls = << >>
    /\ entity = None
    /\ result = IF pattern = "is_true" THEN FALSE
                ELSE IF pattern = "find_var" THEN None ELSE 0
    /\ reads = {}
    /\ cur_log = << >>
    /\ shared = [k \in Fields |-> FALSE]
    /\ tuple = [k \in Fields |-> 0]
    /\ query_null \in IF pattern \in IntrospectionOps \ {"find_var"}
                         THEN BOOLEAN ELSE {FALSE}
    /\ nterms \in IF pattern \in {"each_term", "term_count"}
                     THEN 0..MaxTerms ELSE {0}
    /\ var_index \in IF pattern = "find_var" THEN -1..(MaxVars - 1) ELSE {-1}
    /\ os_free \in IF pattern \in {"to_string", "plan"} THEN BOOLEAN ELSE {TRUE}
    /\ buf_alloc = 0
    /\ buf_frees = 0
    /\ null_deref = FALSE

----------------------------------------------------------------------------
\* Engine primitives the patterns are built on.

\* iter_next returns true iff the cursor has a further match.
iter_next_result == pos < Len(matches)

\* iter_next: advance to the next match, or exhaust (and finalize) the cursor.
iter_next ==
    IF iter_next_result
        THEN /\ pos' = pos + 1
             /\ cur' = "Matching"
             /\ cur_log' = Append(cur_log, "next_true")
        ELSE /\ pos' = pos
             /\ cur' = "Exhausted"
             /\ cur_log' = Append(cur_log, "next_false")

\* ecs_iter_fini: release the cursor before exhaustion.
ecs_iter_fini ==
    /\ pos' = pos
    /\ cur' = "Finalized"
    /\ cur_log' = Append(cur_log, "fini")

ecs_table_lock(t) == table_lock' = [table_lock EXCEPT ![t] = @ + 1]

ecs_table_unlock(t) == table_lock' = [table_lock EXCEPT ![t] = @ - 1]

\* components_data.get_tuple(row): field k of the tuple addresses element
\* row of its column, or element 0 when the match marks the field shared.
get_tuple(flags, row) == [k \in Fields |-> IF flags[k] THEN 0 ELSE row]

\* *iter.entities.add(row): slot row of the current match.  A slot at or past
\* count is outside the sequence: the read yields an arbitrary value.
EntitySlot(m, row) ==
    IF row < matches[m].count THEN {EntityId(m, row)} ELSE EntityDomain

----------------------------------------------------------------------------
\* Statements shared by the patterns.  Each is one step of a method body.

\* let mut iter = self.retrieve_iter();
RetrieveIter(next_pc) ==
    /\ pc = "entry"
    /\ cur' = "Fresh"
    /\ pc' = next_pc
    /\ UNCHANGED <<pattern, matches, pos, i, iter_count, table_lock, locks,
                   unlocks, calls, entity, result, reads, cur_log,
                   fieldVars, introVars>>

\* let iter_count = iter.count as usize;
PlainCount(c) == c

\* let iter_count = if iter.count == 0 { 1_usize } else { iter.count as usize };
SingletonCount(c) == IF c = 0 THEN 1 ELSE c

\* while self.iter_next(&mut iter) { create_ptrs; let iter_count = ...;
\* The match descriptor the engine fills in says which fields are shared.
\* On false the loop ends and the method returns.
\* zero_as_one: the pattern's iter_count special-cases count == 0.
WhileIterNext(zero_as_one) ==
    /\ pc = "while"
    /\ iter_next
    /\ IF iter_next_result
           THEN /\ iter_count' = IF zero_as_one
                                    THEN SingletonCount(matches[pos + 1].count)
                                    ELSE PlainCount(matches[pos + 1].count)
                /\ shared' \in [Fields -> BOOLEAN]
                /\ pc' = "lock"
           ELSE /\ iter_count' = iter_count
                /\ shared' = shared
                /\ pc' = "done"
    /\ UNCHANGED <<pattern, matches, i, table_lock, locks, unlocks, calls,
                   entity, result, reads, tuple, introVars>>

\* TableLock without the engine call: the loop is entered with no lock taken.
TableLockOmitted(next_pc) ==
    /\ pc = "lock"
    /\ i' = 0
    /\ pc' = next_pc
    /\ UNCHANGED <<pattern, matches, cur, pos, iter_count, table_lock, locks,
                   unlocks, calls, entity, result, reads, cur_log,
                   fieldVars, introVars>>

\* sys::ecs_table_lock(world, iter.table);
TableLock(next_pc) ==
    /\ pc = "lock"
    /\ ecs_table_lock(matches[pos].table)
    /\ locks' = [locks EXCEPT ![pos] = @ + 1]
    /\ i' = 0
    /\ pc' = next_pc
    /\ UNCHANGED <<pattern, matches, cur, pos, iter_count, unlocks, calls,
                   entity, result, reads, cur_log,
                   fieldVars, introVars>>

\* TableUnlock without the engine call: the next match is taken with the
\* lock of this one still held.
TableUnlockOmitted ==
    /\ pc = "unlock"
    /\ pc' = "while"
    /\ UNCHANGED <<pattern, matches, cur, pos, i, iter_count, table_lock,
                   locks, unlocks, calls, entity, result, reads, cur_log,
                   fieldVars, introVars>>

\* sys::ecs_table_unlock(world, iter.table);  } of the while loop
TableUnlock ==
    /\ pc = "unlock"
    /\ ecs_table_unlock(matches[pos].table)
    /\ unlocks' = [unlocks EXCEPT ![pos] = @ + 1]
    /\ pc' = "while"
    /\ UNCHANGED <<pattern, matches, cur, pos, i, iter_count, locks, calls,
                   entity, result, reads, cur_log,
                   fieldVars, introVars>>

\* ForRow building every tuple from row 0.
ForRowFirstTuple(entity_arg) ==
    /\ pc = "for"
    /\ IF i < iter_count
           THEN /\ tuple' = get_tuple(shared, 0)
                /\ calls' = Append(calls, [m |-> pos, row |-> i, ret |-> "running"])
                /\ reads' = IF entity_arg THEN reads \cup {<<pos, i>>} ELSE reads
                /\ pc' = "func"
           ELSE /\ pc' = "unlock"
                /\ UNCHANGED <<calls, reads, tuple>>
    /\ UNCHANGED <<pattern, matches, cur, pos, i, iter_count, table_lock,
                   locks, unlocks, entity, result, cur_log, shared, introVars>>

\* for i in 0..iter_count { let tuple = components_data.get_tuple(i); func(..)
\* The loop head either enters the callback for row i or leaves the loop.
\* entity_arg: the callback's arguments include entities[i], read before the call.
ForRow(entity_arg) ==
    /\ pc = "for"
    /\ IF i < iter_count
           THEN /\ tuple' = get_tuple(shared, i)
                /\ calls' = Append(calls, [m |-> pos, row |-> i, ret |-> "running"])
                /\ reads' = IF entity_arg THEN reads \cup {<<pos, i>>} ELSE reads
                /\ pc' = "func"
           ELSE /\ pc' = "unlock"
                /\ UNCHANGED <<calls, reads, tuple>>
    /\ UNCHANGED <<pattern, matches, cur, pos, i, iter_count, table_lock,
                   locks, unlocks, entity, result, cur_log, shared, introVars>>

\* CallTable with a guard on the count: a match without entities gets no call.
CallTableSkipsEmpty ==
    /\ pc = "call"
    /\ IF matches[pos].count = 0
           THEN /\ pc' = "unlock"
                /\ calls' = calls
           ELSE /\ calls' = Append(calls, [m |-> pos, row |-> 0, ret |-> "running"])
                /\ pc' = "func"
    /\ UNCHANGED <<pattern, matches, cur, pos, i, iter_count, table_lock,
                   locks, unlocks, entity, result, reads, cur_log,
                   fieldVars, introVars>>

\* func(&mut iter_t, tuple) of the per-table patterns: one call per match.
CallTable ==
    /\ pc = "call"
    /\ calls' = Append(calls, [m |-> pos, row |-> 0, ret |-> "running"])
    /\ pc' = "func"
    /\ UNCHANGED <<pattern, matches, cur, pos, i, iter_count, table_lock,
                   locks, unlocks, entity, result, reads, cur_log,
                   fieldVars, introVars>>

SetRet(r) == [calls EXCEPT ![Len(calls)].ret = r]

\* FuncReturns with a step of two: every other row is skipped.
FuncReturnsSkipsRow ==
    /\ pc = "func"
    /\ calls' = SetRet("unit")
    /\ i' = i + 2
    /\ pc' = "for"
    /\ UNCHANGED <<pattern, matches, cur, pos, iter_count, table_lock, locks,
                   unlocks, entity, result, reads, cur_log,
                   fieldVars, introVars>>

\* The callback of an exhaustive per-entity pattern returns: next row.
FuncReturns ==
    /\ pc = "func"
    /\ calls' = SetRet("unit")
    /\ i' = i + 1
    /\ pc' = "for"
    /\ UNCHANGED <<pattern, matches, cur, pos, iter_count, table_lock, locks,
                   unlocks, entity, result, reads, cur_log,
                   fieldVars, introVars>>

\* The callback of a per-table pattern returns: on to the unlock.
FuncReturnsTable ==
    /\ pc = "func"
    /\ calls' = SetRet("unit")
    /\ pc' = "unlock"
    /\ UNCHANGED <<pattern, matches, cur, pos, i, iter_count, table_lock,
                   locks, unlocks, entity, result, reads, cur_log,
                   fieldVars, introVars>>

\* The callback panics: the frame is left by unwinding.  The frame holds no
\* value whose drop unlocks the table or finalizes the cursor.
FuncUnwinds ==
    /\ pc = "func"
    /\ calls' = SetRet("panic")
    /\ pc' = "unwound"
    /\ UNCHANGED <<pattern, matches, cur, pos, i, iter_count, table_lock,
                   locks, unlocks, entity, result, reads, cur_log,
                   fieldVars, introVars>>

\* BreakTarget as a `continue`/`break` of the outer while loop would have it:
\* the early exit goes past the unlock.
BreakSkipsUnlock == "while"

\* Where the `break` of a find pattern's for loop continues: the statement
\* after the loop, the unlock.
BreakTarget == "unlock"

\* FuncReturnsBool as a loop that leaves the rows of the match at the first
\* result of the predicate, whichever it is.
FuncReturnsBoolLeavesOnFalse(read_after) ==
    /\ pc = "func"
    /\ \E b \in BOOLEAN :
        IF b
            THEN /\ calls' = SetRet("true")
                 /\ \E e \in EntitySlot(pos, i) : entity' = Some(e)
                 /\ reads' = IF read_after THEN reads \cup {<<pos, i>>} ELSE reads
            ELSE /\ calls' = SetRet("false")
                 /\ UNCHANGED <<entity, reads>>
    /\ i' = i
    /\ pc' = BreakTarget
    /\ UNCHANGED <<pattern, matches, cur, pos, iter_count, table_lock, locks,
                   unlocks, result, cur_log,
                   fieldVars, introVars>>

\* if func(..) { entity = Some(EntityView::new_from(world, *iter.entities.add(i))); break; }
\* read_after: the slot is read after the predicate returned true (find,
\* find_iter); find_entity has read it before the call.
FuncReturnsBool(read_after) ==
    /\ pc = "func"
    /\ \E b \in BOOLEAN :
        IF b
            THEN /\ calls' = SetRet("true")
                 /\ \E e \in EntitySlot(pos, i) : entity' = Some(e)
                 /\ reads' = IF read_after THEN reads \cup {<<pos, i>>} ELSE reads
                 /\ i' = i
                 /\ pc' = BreakTarget
            ELSE /\ calls' = SetRet("false")
                 /\ i' = i + 1
                 /\ pc' = "for"
                 /\ UNCHANGED <<entity, reads>>
    /\ UNCHANGED <<pattern, matches, cur, pos, iter_count, table_lock, locks,
                   unlocks, result, cur_log,
                   fieldVars, introVars>>

----------------------------------------------------------------------------
\* The consumption patterns.

each ==
    /\ pattern = "each"
    /\ \/ RetrieveIter("while")
       \/ WhileIterNext(FALSE)
       \/ TableLock("for")
       \/ ForRow(FALSE)
       \/ FuncReturns
       \/ FuncUnwinds
       \/ TableUnlock

each_entity ==
    /\ pattern = "each_entity"
    /\ \/ RetrieveIter("while")
       \/ WhileIterNext(TRUE)
       \/ TableLock("for")
       \/ ForRow(TRUE)
       \/ FuncReturns
       \/ FuncUnwinds
       \/ TableUnlock

each_iter ==
    /\ pattern = "each_iter"
    /\ \/ RetrieveIter("while")
       \/ WhileIterNext(TRUE)
       \/ TableLock("for")
       \/ ForRow(FALSE)
       \/ FuncReturns
       \/ FuncUnwinds
       \/ TableUnlock

find ==
    /\ pattern = "find"
    /\ \/ RetrieveIter("while")
       \/ WhileIterNext(FALSE)
       \/ TableLock("for")
       \/ ForRow(FALSE)
       \/ FuncReturnsBool(TRUE)
       \/ FuncUnwinds
       \/ TableUnlock

find_entity ==
    /\ pattern = "find_entity"
    /\ \/ RetrieveIter("while")
       \/ WhileIterNext(FALSE)
       \/ TableLock("for")
       \/ ForRow(TRUE)
       \/ FuncReturnsBool(FALSE)
       \/ FuncUnwinds
       \/ TableUnlock

find_iter ==
    /\ pattern = "find_iter"
    /\ \/ RetrieveIter("while")
       \/ WhileIterNext(TRUE)
       \/ TableLock("for")
       \/ ForRow(FALSE)
       \/ FuncReturnsBool(TRUE)
       \/ FuncUnwinds
       \/ TableUnlock

iter ==
    /\ pattern = "iter"
    /\ \/ RetrieveIter("while")
       \/ WhileIterNext(FALSE)
       \/ TableLock("call")
       \/ CallTable
       \/ FuncReturnsTable
       \/ FuncUnwinds
       \/ TableUnlock

iter_only ==
    /\ pattern = "iter_only"
    /\ \/ RetrieveIter("while")
       \/ WhileIterNext(FALSE)
       \/ TableLock("call")
       \/ CallTable
       \/ FuncReturnsTable
       \/ FuncUnwinds
       \/ TableUnlock

\* if self.iter_next(it) && it.count > 0 { entity = Some(entities[0]); ecs_iter_fini(it) }
FirstEntityIf ==
    /\ pc = "if"
    /\ iter_next
    /\ IF iter_next_result /\ matches[pos + 1].count > 0
           THEN /\ \E e \in EntitySlot(pos + 1, 0) : entity' = Some(e)
                /\ reads' = reads \cup {<<pos + 1, 0>>}
                /\ pc' = "fini"
           ELSE /\ pc' = "done"
                /\ UNCHANGED <<entity, reads>>
    /\ UNCHANGED <<pattern, matches, i, iter_count, table_lock, locks,
                   unlocks, calls, result,
                   fieldVars, introVars>>

\* IterFini finalizing twice.
IterFiniTwice ==
    /\ pc = "fini"
    /\ pos' = pos
    /\ cur' = "Finalized"
    /\ cur_log' = cur_log \o <<"fini", "fini">>
    /\ pc' = "done"
    /\ UNCHANGED <<pattern, matches, i, iter_count, table_lock, locks,
                   unlocks, calls, entity, result, reads,
                   fieldVars, introVars>>

\* unsafe { sys::ecs_iter_fini(it) };  then the method returns
IterFini ==
    /\ pc = "fini"
    /\ ecs_iter_fini
    /\ pc' = "done"
    /\ UNCHANGED <<pattern, matches, i, iter_count, table_lock, locks,
                   unlocks, calls, entity, result, reads,
                   fieldVars, introVars>>

first_entity ==
    /\ pattern = "first_entity"
    /\ \/ RetrieveIter("if")
       \/ FirstEntityIf
       \/ IterFini

\* IsTrueNext with first_entity's condition: a match counts only if it
\* holds entities.
IsTrueNeedsEntities ==
    /\ pc = "if"
    /\ iter_next
    /\ result' = (iter_next_result /\ matches[pos + 1].count > 0)
    /\ pc' = IF iter_next_result /\ matches[pos + 1].count > 0 THEN "fini" ELSE "done"
    /\ UNCHANGED <<pattern, matches, i, iter_count, table_lock, locks,
                   unlocks, calls, entity, reads,
                   fieldVars, introVars>>

\* let result = self.iter_next(&mut it); if result { ecs_iter_fini(&mut it) }
IsTrueNext ==
    /\ pc = "if"
    /\ iter_next
    /\ result' = iter_next_result
    /\ pc' = IF iter_next_result THEN "fini" ELSE "done"
    /\ UNCHANGED <<pattern, matches, i, iter_count, table_lock, locks,
                   unlocks, calls, entity, reads,
                   fieldVars, introVars>>

is_true ==
    /\ pattern = "is_true"
    /\ \/ RetrieveIter("if")
       \/ IsTrueNext
       \/ IterFini

\* i32::MAX: result and it.count are i32.
I32_MAX == 2147483647

\* CountAdd counting matches instead of entities.
CountAddOne(acc, c) == acc + 1

\* result += it.count;  i32 addition of a count (>= 0), wrapping past
\* i32::MAX to i32::MIN as the release build's two's complement addition does.
CountAdd(acc, c) ==
    IF acc > I32_MAX - c
        THEN (acc - I32_MAX - 1) + c + (-I32_MAX - 1)
        ELSE acc + c

\* while self.iter_next(&mut it) { result += it.count; }  result
CountWhile ==
    /\ pc = "while"
    /\ iter_next
    /\ IF iter_next_result
           THEN /\ result' = CountAdd(result, matches[pos + 1].count)
                /\ pc' = "while"
           ELSE /\ result' = result
                /\ pc' = "done"
    /\ UNCHANGED <<pattern, matches, i, iter_count, table_lock, locks,
                   unlocks, calls, entity, reads,
                   fieldVars, introVars>>

count ==
    /\ pattern = "count"
    /\ \/ RetrieveIter("while")
       \/ CountWhile

----------------------------------------------------------------------------
\* Query introspection.

iterVars ==
    <<matches, cur, pos, iter_count, table_lock, locks, unlocks, calls,
      entity, reads, cur_log>>

\* let query = self.query_ptr();
\* ecs_assert!(!query.is_null(), FlecsErrorCode::InvalidParameter, "query filter is null");
\* The assertion is taken as compiled in: a null handle aborts here.
QueryAssert(next_pc) ==
    /\ pc = "entry"
    /\ pc' = IF query_null THEN "aborted" ELSE next_pc
    /\ UNCHANGED <<pattern, i, result, iterVars, fieldVars, introVars>>

\* for i in 0..query.term_count { let term = TermRef::new(&query.terms[i]); func(&term)
EachTermLoop ==
    /\ pc = "terms"
    /\ pc' = IF i < nterms THEN "term_func" ELSE "done"
    /\ UNCHANGED <<pattern, i, result, iterVars, fieldVars, introVars>>

\* func(&term) returns: next term.
TermFuncReturns ==
    /\ pc = "term_func"
    /\ i' = i + 1
    /\ pc' = "terms"
    /\ UNCHANGED <<pattern, result, iterVars, fieldVars, introVars>>

\* func(&term) panics.
TermFuncUnwinds ==
    /\ pc = "term_func"
    /\ pc' = "unwound"
    /\ UNCHANGED <<pattern, i, result, iterVars, fieldVars, introVars>>

each_term ==
    /\ pattern = "each_term"
    /\ \/ QueryAssert("terms")
       \/ EachTermLoop
       \/ TermFuncReturns
       \/ TermFuncUnwinds

\* let query = unsafe { &*query }; TermRef::new(&query.terms[index])
TermRead ==
    /\ pc = "term"
    /\ \E index \in 0..MaxTerms : result' = index
    /\ pc' = "done"
    /\ UNCHANGED <<pattern, i, iterVars, fieldVars, introVars>>

term ==
    /\ pattern = "term"
    /\ \/ QueryAssert("term")
       \/ TermRead

\* let query = self.query_ptr(); unsafe { (*query).<field> }
\* No test of the pointer: a null handle is dereferenced, after which the
\* call may crash or return any value.
QueryDeref(value) ==
    /\ pc = "entry"
    /\ IF query_null
           THEN /\ null_deref' = TRUE
                /\ pc' \in {"done", "crashed"}
                /\ result' \in 0..MaxTerms
           ELSE /\ null_deref' = null_deref
                /\ pc' = "done"
                /\ result' = value
    /\ UNCHANGED <<pattern, i, iterVars, fieldVars, query_null, nterms,
                   var_index, os_free, buf_alloc, buf_frees>>

field_count ==
    /\ pattern = "field_count"
    /\ QueryDeref(NumFields)

term_count ==
    /\ pattern = "term_count"
    /\ QueryDeref(nterms)

\* let result: *mut c_char = unsafe { sys::ecs_query_str(query as *const _) };
\* (ecs_query_plan in plan).  No test of the pointer: a null handle goes to
\* the engine, after which the call may crash or go on with a buffer.
QueryStr ==
    /\ pc = "entry"
    /\ IF query_null
           THEN /\ null_deref' = TRUE
                /\ pc' \in {"convert", "crashed"}
           ELSE /\ null_deref' = null_deref
                /\ pc' = "convert"
    /\ buf_alloc' = IF pc' = "convert" THEN buf_alloc + 1 ELSE buf_alloc
    /\ UNCHANGED <<pattern, i, result, iterVars, fieldVars, query_null,
                   nterms, var_index, os_free, buf_frees>>

\* String::from(CStr::from_ptr(result).to_str().unwrap()): panics when the
\* engine's text is not UTF-8, before the buffer is released.
StrConvert ==
    /\ pc = "convert"
    /\ \E utf8 \in BOOLEAN : pc' = IF utf8 THEN "free" ELSE "unwound"
    /\ UNCHANGED <<pattern, i, result, iterVars, fieldVars, introVars>>

\* if let Some(free_func) = sys::ecs_os_api.free_ { free_func(result as *mut _); }
\* rust_string
StrFree ==
    /\ pc = "free"
    /\ buf_frees' = IF os_free THEN buf_frees + 1 ELSE buf_frees
    /\ pc' = "done"
    /\ UNCHANGED <<pattern, i, result, iterVars, fieldVars, query_null,
                   nterms, var_index, os_free, buf_alloc, null_deref>>

to_string ==
    /\ pattern = "to_string"
    /\ \/ QueryStr
       \/ StrConvert
       \/ StrFree

plan ==
    /\ pattern = "plan"
    /\ \/ QueryStr
       \/ StrConvert
       \/ StrFree

\* FindVar taking 0 for the sentinel.
FindVarZeroSentinel ==
    /\ pc = "entry"
    /\ result' = IF var_index = 0 THEN None ELSE Some(var_index)
    /\ pc' = "done"
    /\ UNCHANGED <<pattern, i, iterVars, fieldVars, introVars>>

\* let var_index = ecs_query_find_var(..);
\* if var_index == -1 { None } else { Some(var_index) }
FindVar ==
    /\ pc = "entry"
    /\ result' = IF var_index = -1 THEN None ELSE Some(var_index)
    /\ pc' = "done"
    /\ UNCHANGED <<pattern, i, iterVars, fieldVars, introVars>>

find_var ==
    /\ pattern = "find_var"
    /\ FindVar

Next ==
    \/ each
    \/ each_entity
    \/ each_iter
    \/ find
    \/ find_entity
    \/ find_iter
    \/ iter
    \/ iter_only
    \/ first_entity
    \/ is_true
    \/ count
    \/ each_term
    \/ term
    \/ field_count
    \/ term_count
    \/ to_string
    \/ find_var
    \/ plan

Spec == Init /\ [][Next]_vars

\* The call runs synchronously on the calling thread: a statement of the
\* method that can execute does execute.
FairSpec == Spec /\ WF_vars(Next)

----------------------------------------------------------------------------
\* Vocabulary of the properties.

LockingPatterns ==
    {"each", "each_entity", "each_iter", "find", "find_entity", "find_iter",
     "iter", "iter_only"}

EachPatterns == {"each", "each_entity", "each_iter"}

FindPatterns == {"find", "find_entity", "find_iter"}

\* The pattern has returned to its caller.
Returned == pc = "done"

\* Indices of the callback invocations made on match m.
CallsOn(m) == {k \in 1..Len(calls) : calls[k].m = m}

\* Indices of the predicate invocations that returned true.
TrueCalls == {k \in 1..Len(calls) : calls[k].ret = "true"}

\* The first predicate invocation that returned true.
FirstTrue == CHOOSE k \in TrueCalls : \A j \in TrueCalls : k <= j

\* Matches with at least one entity.
NonEmpty == {m \in 1..Len(matches) : matches[m].count > 0}

RECURSIVE SumCounts(_)
\* Sum of the count fields of the first n matches.
SumCounts(n) == IF n = 0 THEN 0 ELSE SumCounts(n - 1) + matches[n].count

----------------------------------------------------------------------------
\* C1  Lock pairing: in every locking pattern every match the cursor has
\* moved past has exactly one ecs_table_lock and one ecs_table_unlock, a
\* match is never unlocked more often than locked, and when the pattern
\* returns every match consumed has exactly one of each and no table is
\* left locked; an early break of a find predicate does not change this.
LockPairing ==
    pattern \in LockingPatterns =>
        /\ \A m \in 1..Len(matches) :
               /\ unlocks[m] <= locks[m]
               /\ locks[m] <= 1
               /\ m < pos => locks[m] = 1 /\ unlocks[m] = 1
               /\ m > pos => locks[m] = 0
        /\ Returned =>
               /\ \A m \in 1..pos : locks[m] = 1 /\ unlocks[m] = 1
               /\ \A t \in Tables : table_lock[t] = 0

\* A find pattern has returned after its predicate returned true on a row
\* that was not the last of its match (an early break), two matches consumed.
LockPairingWitness ==
    /\ pattern \in FindPatterns
    /\ Returned
    /\ pos >= 2
    /\ \E k \in TrueCalls : calls[k].row + 1 < matches[calls[k].m].count

\* C2  Find short-circuits: in the find family no predicate invocation
\* follows one that returned true: a true result is the last invocation.
FindShortCircuits ==
    pattern \in FindPatterns =>
        \A k \in TrueCalls : k = Len(calls)

\* C3  In the find family the value returned is the identity of the first
\* entity, in visit order, on which the predicate returned true.
FindReturnsFirstTrue ==
    (pattern \in FindPatterns /\ Returned /\ TrueCalls # {}) =>
        (calls[FirstTrue].row < matches[calls[FirstTrue].m].count =>
            entity = Some(EntityId(calls[FirstTrue].m, calls[FirstTrue].row)))

\* C4  Resource cleanup: whenever a pattern returns its cursor is finalized,
\* by an iter_next that returned false or by ecs_iter_fini.
CursorFinalizedOnReturn ==
    (pattern \in ConsumptionPatterns /\ Returned) =>
        cur \in {"Exhausted", "Finalized"}

\* C5  Zero-count match in each, each_entity, each_iter: once such a match
\* has been consumed the callback has been invoked on it exactly once, row 0.
ZeroCountEachOnce ==
    pattern \in EachPatterns =>
        \A m \in 1..Len(matches) :
            (matches[m].count = 0 /\ unlocks[m] = 1) =>
                /\ Cardinality(CallsOn(m)) = 1
                /\ \A k \in CallsOn(m) : calls[k].row = 0

\* C6  Zero-count match in find, find_entity, find_iter: once such a match
\* has been consumed the predicate has been invoked on it exactly once, row 0.
ZeroCountFindOnce ==
    pattern \in FindPatterns =>
        \A m \in 1..Len(matches) :
            (matches[m].count = 0 /\ unlocks[m] = 1) =>
                /\ Cardinality(CallsOn(m)) = 1
                /\ \A k \in CallsOn(m) : calls[k].row = 0

\* C7  Count additivity: count() returns the sum of the count fields of all
\* the matches the cursor yields, and has run the cursor to exhaustion.
CountAdditivity ==
    (pattern = "count" /\ Returned) =>
        /\ result = SumCounts(Len(matches))
        /\ pos = Len(matches)
        /\ cur = "Exhausted"

\* count() has returned over two matches that both hold entities.
CountAdditivityWitness ==
    /\ pattern = "count"
    /\ Returned
    /\ Len(matches) >= 2
    /\ \A m \in 1..Len(matches) : matches[m].count > 0
    /\ result > matches[1].count

\* C8  first_entity returns entity 0 of the first match with count > 0,
\* and None only when there is no such match.
FirstEntitySkipsEmpty ==
    (pattern = "first_entity" /\ Returned) =>
        IF NonEmpty = {}
            THEN entity = None
            ELSE \E m \in NonEmpty :
                    /\ \A n \in NonEmpty : m <= n
                    /\ entity = Some(EntityId(m, 0))

\* C9  Lock release on callback error: after a callback unwound out of a
\* locking pattern no table is left locked.
LockReleasedOnUnwind ==
    pc = "unwound" => \A t \in Tables : table_lock[t] = 0

\* C10  Callback under the lock: while a callback executes, the table of
\* the cursor's current match is locked, the lock of that match has been
\* taken and not yet released, and the callback is the one of that match;
\* outside the callback no invocation is in progress.
CallbackUnderLock ==
    /\ pc = "func" =>
           /\ pattern \in LockingPatterns
           /\ cur = "Matching"
           /\ table_lock[matches[pos].table] >= 1
           /\ locks[pos] = 1
           /\ unlocks[pos] = 0
           /\ calls[Len(calls)].m = pos
           /\ calls[Len(calls)].ret = "running"
    /\ \A k \in 1..Len(calls) :
           calls[k].ret = "running" => (k = Len(calls) /\ pc = "func")

\* A callback executes on row 1 of the second of two matches that are
\* fragments of the same table, the first match's lock already released.
CallbackUnderLockWitness ==
    /\ pc = "func"
    /\ pos = 2
    /\ matches[1].table = matches[2].table
    /\ unlocks[1] = 1
    /\ i >= 1

\* The rows of match m, in index order.
RowsOf(m) == [r \in 1..matches[m].count |-> <<m, r - 1>>]

RECURSIVE VisitOrder(_)
\* The rows of the first n matches: matches in cursor order, rows in index order.
VisitOrder(n) == IF n = 0 THEN << >> ELSE VisitOrder(n - 1) \o RowsOf(n)

\* A callback invocation on a match that holds entities.
OnEntities(c) == matches[c.m].count > 0

\* The <<m, row>> of the invocations made on matches that hold entities.
Visited ==
    [k \in 1..Len(SelectSeq(calls, OnEntities)) |->
        <<SelectSeq(calls, OnEntities)[k].m, SelectSeq(calls, OnEntities)[k].row>>]

\* C11  Exhaustive visiting order: in each, each_entity and each_iter the
\* invocations on matches with count > 0 are at every moment a prefix of
\* the rows in visit order (matches in cursor order, rows 0..count), and on
\* return they are all of them: no row skipped, none visited twice.
ExhaustiveVisitOrder ==
    pattern \in EachPatterns =>
        /\ Len(Visited) <= Len(VisitOrder(Len(matches)))
        /\ \A k \in 1..Len(Visited) : Visited[k] = VisitOrder(Len(matches))[k]
        /\ Returned => Visited = VisitOrder(Len(matches))

\* An exhaustive per-entity pattern has returned over two matches of at
\* least two rows each.
ExhaustiveVisitOrderWitness ==
    /\ pattern \in EachPatterns
    /\ Returned
    /\ Len(matches) >= 2
    /\ \A m \in 1..Len(matches) : matches[m].count >= 2
    /\ Len(calls) >= 4

\* C12  Per-table patterns: in iter and iter_only the k-th invocation is
\* the one invocation of the k-th match, whatever its count, and on return
\* there are as many invocations as matches.
OneCallPerMatch ==
    pattern \in {"iter", "iter_only"} =>
        /\ \A k \in 1..Len(calls) : calls[k].m = k
        /\ Len(calls) <= pos
        /\ \A m \in 1..Len(matches) : unlocks[m] = 1 => Cardinality(CallsOn(m)) = 1
        /\ Returned => Len(calls) = Len(matches)

\* A per-table pattern has returned over a match without entities followed
\* by a match with entities.
OneCallPerMatchWitness ==
    /\ pattern \in {"iter", "iter_only"}
    /\ Returned
    /\ Len(matches) >= 2
    /\ matches[1].count = 0
    /\ matches[2].count > 0
    /\ Len(calls) = 2

\* C17  is_true returns true iff the first iter_next yields a match (of any
\* count), invokes no callback, takes no table lock, and calls
\* ecs_iter_fini exactly when it returns true.
IsTrueResult ==
    pattern = "is_true" =>
        /\ calls = << >>
        /\ \A m \in 1..Len(matches) : locks[m] = 0
        /\ \A t \in Tables : table_lock[t] = 0
        /\ Returned =>
               /\ result = (Len(matches) > 0)
               /\ cur_log = IF result THEN <<"next_true", "fini">> ELSE <<"next_false">>

\* is_true has returned true on a cursor whose first match has no entities.
IsTrueResultWitness ==
    /\ pattern = "is_true"
    /\ Returned
    /\ Len(matches) >= 1
    /\ matches[1].count = 0
    /\ result = TRUE

\* C18  Cursor protocol: every cursor primitive called before the last one
\* is an iter_next that returned true: nothing is called on the cursor
\* after an iter_next that returned false or after ecs_iter_fini.
CursorProtocol ==
    \A k \in 1..(Len(cur_log) - 1) : cur_log[k] = "next_true"

\* A pattern has returned after finalizing its cursor early, and the
\* cursor had a further match to yield.
CursorProtocolWitness ==
    /\ Returned
    /\ cur = "Finalized"
    /\ pos < Len(matches)
    /\ cur_log[Len(cur_log)] = "fini"

\* C19  Single lock per table, once per match: no table is ever locked
\* more than once, no match is locked more than once, no lock is held when
\* iter_next is called or when the lock of a match is about to be taken,
\* and through the whole row loop of a match its one lock is held.
SingleLockPerTable ==
    /\ \A t \in Tables : table_lock[t] <= 1
    /\ \A m \in 1..Len(matches) : locks[m] <= 1
    /\ pc \in {"while", "lock"} => \A t \in Tables : table_lock[t] = 0
    /\ pc \in {"for", "call", "func", "unlock"} =>
           /\ locks[pos] = 1
           /\ \A t \in Tables :
                  table_lock[t] = IF t = matches[pos].table THEN 1 ELSE 0

\* The row loop of the second of two fragments of one table has reached
\* its second row, the table locked once.
SingleLockPerTableWitness ==
    /\ pc = "for"
    /\ pos = 2
    /\ matches[1].table = matches[2].table
    /\ i = 1
    /\ i < iter_count
    /\ table_lock[matches[2].table] = 1

\* C20  Entity-slot bounds: every entity slot read lies inside the match's
\* entity sequence, at an index below count.
EntityReadsInBounds ==
    \A rd \in reads : rd[2] < matches[rd[1]].count

\* The patterns that hand a row tuple to their callback.
TuplePatterns == EachPatterns \cup FindPatterns

\* C13  Shared-field broadcast: the tuple a per-entity callback receives
\* for row i addresses element 0 of every field the match marks shared and
\* element i of every other field.
SharedFieldBroadcast ==
    (pattern \in TuplePatterns /\ pc = "func") =>
        /\ calls[Len(calls)].row = i
        /\ \A k \in Fields : tuple[k] = IF shared[k] THEN 0 ELSE i

\* A per-entity callback runs on a row past the first of the second match,
\* which marks a field shared: the tuple addresses element 0 of that field.
SharedFieldBroadcastWitness ==
    /\ pattern \in EachPatterns
    /\ pc = "func"
    /\ pos = 2
    /\ i >= 1
    /\ \E k \in Fields : shared[k] /\ tuple[k] = 0

\* C14  find_var: a negative result of the engine's lookup gives None, and
\* a Some(i) returned holds the engine's result, which is not negative.
FindVarNotFound ==
    (pattern = "find_var" /\ Returned) =>
        /\ var_index < 0 => result = None
        /\ result # None => (result = Some(var_index) /\ var_index >= 0)
        /\ var_index >= 0 => result = Some(var_index)

\* find_var has returned None for a name the engine did not find.
FindVarNotFoundWitness ==
    /\ pattern = "find_var"
    /\ Returned
    /\ var_index = -1
    /\ result = None

\* C15  Engine-owned string buffers: when to_string or plan returns, the
\* buffer the engine handed out has been released exactly once.
BufferReleasedOnce ==
    (pattern \in {"to_string", "plan"} /\ Returned) =>
        (buf_alloc = 1 /\ buf_frees = 1)

\* C16  Null query handle: no introspection method dereferences a null
\* query pointer or gives one to the engine; with a null handle the method
\* aborts.
NullQueryDetected ==
    /\ ~null_deref
    /\ (query_null /\ pc # "entry") => pc = "aborted"

----------------------------------------------------------------------------
\* C21  Not-found in the find family: find, find_entity and find_iter
\* return None exactly when no invocation of the predicate returned true
\* (no invocation at all included), and when they return None the cursor
\* is exhausted and the predicate has been invoked on every row of every
\* match, once each, in visit order.
FindNotFound ==
    (pattern \in FindPatterns /\ Returned) =>
        /\ entity = None <=> TrueCalls = {}
        /\ entity = None =>
               /\ cur = "Exhausted"
               /\ Visited = VisitOrder(Len(matches))
               /\ \A k \in 1..Len(calls) : calls[k].ret = "false"

\* A find pattern has returned None after its predicate returned false on
\* every row of two matches of two rows each.
FindNotFoundWitness ==
    /\ pattern \in FindPatterns
    /\ Returned
    /\ entity = None
    /\ Len(matches) = 2
    /\ \A m \in 1..2 : matches[m].count = 2
    /\ Len(calls) = 4

----------------------------------------------------------------------------
\* The pattern has returned with the cursor exhausted or finalized and
\* with no table locked.
CleanReturn ==
    /\ Returned
    /\ cur \in {"Exhausted", "Finalized"}
    /\ \A t \in Tables : table_lock[t] = 0

\* No callback unwinds: every callback invoked returns.
CallbacksReturn == [](pc # "unwound")

\* C22  Termination: over a cursor of finitely many matches with finite
\* counts and with callbacks that return, every consumption pattern
\* eventually returns with the cursor exhausted or finalized and with no
\* table lock held.
Termination ==
    pattern \in ConsumptionPatterns => (CallbacksReturn => <>CleanReturn)

====
